---- MODULE Spec2Model ----
(***************************************************************************)
(* Model of the workflow engine of package flow (src/workflow.go):         *)
(* Workflow.ApplyEvent and the registry operations New, AddNode, List and  *)
(* Get, run by independent callers against one shared transactional       *)
(* store.                                                                  *)
(*                                                                         *)
(* The store is a committed state plus, per caller, the write set of the   *)
(* unit of work the caller owns (otx) and the status of the unit of work   *)
(* the engine opened itself (db.Begin).  A nil *sql.Tx panics when a       *)
(* statement is executed or a commit is attempted through it; deferred     *)
(* calls run while the panic unwinds.                                      *)
(***************************************************************************)
EXTENDS Integers, Sequences, FiniteSets

\* ------------------------------------------------------------------ bounds
MaxWfId == 1        \* highest auto-increment id of wf_workflows handed out
MaxNodeId == 1      \* highest auto-increment id of wf_workflow_nodes handed out
MaxListId == 5      \* highest id of wf_workflows in the stores List and Get are run on
MaxNameId == 3      \* highest id of wf_workflows handed out when callers register names
MaxRegNodeId == 3   \* highest id of wf_workflow_nodes handed out when callers register nodes

\* ------------------------------------------------------------- input sets
Procs == {1, 2}                 \* independent callers
Admins == {1}                   \* the callers that administer the registry
DocTypes == {1, 2}
DocStates == {10, 20}
DocActions == {1, 99}
Groups == {7, 8}
Events == {1}                   \* ids of the stored DocEvents
NIL == 0                        \* a nil *DocEvent

\* The stored DocEvents (created upstream): document type, state, action.
EvDtype(e) == 1
EvState(e) == 10
EvAction(e) == IF e = 1 THEN 1 ELSE 99

\* Names are strings, modelled as sequences of characters.
NameInputs == { <<>>, <<" ">>, <<"\t">>, <<" ", "a", " ">>, <<"\t", "a", "\n">> }
NodeNames == { <<" ">>, <<"\r", " ">>, <<"n">>, <<"\t", "n", "U+00A0">> }
BeginStates == {10}             \* begin states handed to New
NodeDtypes == {1}               \* document types handed to AddNode
WidInputs == {1}                \* workflow ids handed to AddNode
NodeTypes == {"begin"}          \* node types handed to AddNode
RecipientInputs == { {}, {7}, {7, 8} }
\* (offset, limit) pairs handed to List, and ids handed to Get, next to the other operations
ListArgs == { <<-1, 1>>, <<0, -1>>, <<0, 0>> }
GetIds == {1}
\* map[DocActionID]DocStateID values handed to AddNode (the empty map included)
HashInputs == { [a \in {} |-> 10], [a \in {1} |-> 20], [a \in {99} |-> 10],
                [a \in {1, 99} |-> 20] }

\* --------------------------------------------------------------- helpers
\* unicode.IsSpace: the characters strings.TrimSpace strips.  A character is a
\* one-character string, or the name of its code point where there is no
\* escape for it.
WhiteSpace == { " ", "\t", "\n", "\r", "\f", "U+000B", "U+0085", "U+00A0", "U+1680",
                "U+2000", "U+2001", "U+2002", "U+2003", "U+2004", "U+2005", "U+2006",
                "U+2007", "U+2008", "U+2009", "U+200A", "U+2028", "U+2029", "U+202F",
                "U+205F", "U+3000" }

RECURSIVE TrimLeft(_)
TrimLeft(s) ==
    IF s = <<>> THEN s
    ELSE IF Head(s) \in WhiteSpace THEN TrimLeft(Tail(s)) ELSE s

RECURSIVE TrimRight(_)
TrimRight(s) ==
    IF s = <<>> THEN s
    ELSE IF s[Len(s)] \in WhiteSpace THEN TrimRight(SubSeq(s, 1, Len(s) - 1)) ELSE s

\* strings.TrimSpace
TrimSpace(s) == TrimRight(TrimLeft(s))

IntentKeys == Events \X DocStates \X Groups
NoMsgs == [k \in IntentKeys |-> 0]
AddMsgs(m, e, ns, gs) ==
    [k \in IntentKeys |-> IF k[1] = e /\ k[2] = ns /\ k[3] \in gs THEN m[k] + 1 ELSE m[k]]
SumMsgs(m1, m2) == [k \in IntentKeys |-> m1[k] + m2[k]]

VARIABLES
    wfs,        \* committed rows of wf_workflows
    nodes,      \* committed rows of wf_workflow_nodes
    trans,      \* committed rows of wf_docstate_transitions
    evstatus,   \* committed status of each DocEvent row
    msgs,       \* committed notification intents: (event, new state, group) -> count
    apps,       \* history: the successful applyEvent calls whose unit of work committed
    adds,       \* history: the successful AddNode calls whose unit of work committed
    nextWid,    \* next auto-increment id of wf_workflows
    nextNid,    \* next auto-increment id of wf_workflow_nodes
    ctx,        \* per caller: the unit of work the caller owns and passes as otx
    itx,        \* per caller: status of the unit of work the engine opened itself
    evt,        \* per caller: status field of the caller's in-memory DocEvent objects
    frame,      \* per caller: the ApplyEvent, New or AddNode call in flight
    succ,       \* per caller and DocEvent object: ApplyEvent calls that returned success
    res         \* the last completed call: who called what, and how it ended

vars == <<wfs, nodes, trans, evstatus, msgs, apps, adds, nextWid, nextNid, ctx, itx, evt,
          frame, succ, res>>
\* the durable store (with its history)
store == <<wfs, nodes, trans, evstatus, msgs, apps, adds>>

\* A unit of work with an empty write set.
EmptyTx == [st |-> "none", by |-> "none", failed |-> FALSE,
            wfs |-> {}, nodes |-> {}, trans |-> {}, evs |-> {}, msgs |-> NoMsgs,
            apps |-> {}, adds |-> {}]
OpenTx == [EmptyTx EXCEPT !.st = "open"]
\* the rows a unit of work holds
WriteSet(t) == <<t.wfs, t.nodes, t.trans, t.evs, t.msgs>>

\* The arguments and the progress of a New or AddNode call in flight: name the
\* trimmed name, (of AddNode) todo the actions of the map the loop has not
\* visited, id the id of the inserted Node row, held as in AddNodeRes.  NoAdd:
\* no such call.
NoAdd == [dtype |-> 0, state |-> 0, wid |-> 0, name |-> <<>>, ntype |-> "none",
          hash |-> <<>>, todo |-> {}, id |-> 0, held |-> FALSE]

\* No call in flight.
Idle == [pc |-> "idle", otx |-> FALSE, tx |-> "nil", ev |-> NIL, recips |-> {}, wdt |-> 0,
         add |-> NoAdd]

\* Outcome record of a call: caller p, operation op, with (otx) or without a
\* caller-supplied unit of work, outcome out and returned value val.  The rest
\* records the call's inputs as they were when it was made: ev, recips and wdt
\* (the workflow's document type) of an ApplyEvent call, pre the status of its
\* DocEvent object, node whether a Node was registered for the event's state, to
\* the to-state registered for its action (0: none); sf the statement that failed
\* in the store ("none", "begin", "stmt", "query"); valid: the inputs and the
\* store met every documented precondition of success and no statement failed;
\* node of an AddNode call: see AddNodeRes; off and lim
\* the arguments of a List call, rows the workflows List or Get returned; name
\* the trimmed name of a New or AddNode call, n the size of an AddNode call's map.
NoRes == [p |-> 0, op |-> "none", otx |-> FALSE, out |-> "none", val |-> 0, ev |-> NIL,
          recips |-> {}, wdt |-> 0, pre |-> "none", node |-> FALSE, to |-> 0,
          sf |-> "none", valid |-> FALSE, off |-> 0, lim |-> 0, rows |-> <<>>,
          name |-> <<>>, n |-> 0]

Init ==
    /\ wfs = {} /\ nodes = {} /\ trans = {}
    /\ evstatus = [e \in Events |-> "Created"]
    /\ msgs = NoMsgs /\ apps = {} /\ adds = {}
    /\ nextWid = 1 /\ nextNid = 1
    /\ ctx = [p \in Procs |-> EmptyTx]
    /\ itx = [p \in Procs |-> "none"]
    /\ evt = [p \in Procs |-> [e \in Events |-> "Created"]]
    /\ frame = [p \in Procs |-> Idle]
    /\ succ = [p \in Procs |-> [e \in Events |-> 0]]
    /\ res = NoRes

\* ------------------------------------------------- the code's decisions
\* `var tx *sql.Tx; if otx == nil { tx, err := db.Begin(); ... } else { tx = otx }`:
\* the := in the inner block declares a new tx, so the outer tx stays nil.
OuterTx(useOtx) == IF useOtx THEN "caller" ELSE "nil"

\* the commit made whoever owns the unit of work
CommitsOwn_Always(useOtx) == TRUE

\* `if otx == nil { err = tx.Commit() ... }`
CommitsOwn(useOtx) == ~useOtx

\* the deferred rollback left out
DeferredRollback_Missing(st) == st

\* `defer tx.Rollback()` on the unit of work db.Begin returned: it ends an open
\* unit of work and is a no-op on a finished one.
DeferredRollback(st) == IF st = "open" THEN "rolledback" ELSE st

\* the error of applyEvent not looked at
Failed_Ignored(out) == FALSE

\* `nstate, err := n.applyEvent(...); if err != nil { return 0, err }`
Failed(out) == out # "ok"

\* the error of the node insert not looked at
NodeInsertFailed_Ignored(dup) == FALSE

\* `res, err := tx.Exec(q, dtype, state, wid, name, ntype); if err != nil { return 0, err }`:
\* the INSERT of a Node whose (dtype, state) is taken fails
NodeInsertFailed(dup) == dup

\* the error of a transition insert not looked at
InsertFailed_Ignored(k, n) == FALSE

\* `_, err := tx.Exec(q, dtype, state, da, ds); if err != nil { return 0, err }`
\* in the loop over the map: insert k of n failed (k = n + 1: none did)
InsertFailed(k, n) == k <= n

\* ------------------------------------------------------ store semantics
\* rows a statement run in caller p's unit of work can see
SeenWfs(p) == wfs \cup ctx[p].wfs
SeenNodes(p) == nodes \cup ctx[p].nodes
SeenTrans(p) == trans \cup ctx[p].trans
\* uncommitted rows of the other callers' units of work (locked until they finish)
OtherWfs(p) == UNION { ctx[q].wfs : q \in Procs \ {p} }
OtherNodes(p) == UNION { ctx[q].nodes : q \in Procs \ {p} }
OtherTrans(p) == UNION { ctx[q].trans : q \in Procs \ {p} }
OtherEvs(p) == UNION { ctx[q].evs : q \in Procs \ {p} }

\* Commit of unit of work t: its write set becomes durable.
Durable(t) ==
    /\ wfs' = wfs \cup t.wfs
    /\ nodes' = nodes \cup t.nodes
    /\ trans' = trans \cup t.trans
    /\ evstatus' = [e \in Events |-> IF e \in t.evs THEN "Applied" ELSE evstatus[e]]
    /\ msgs' = SumMsgs(msgs, t.msgs)
    /\ apps' = apps \cup t.apps
    /\ adds' = adds \cup t.adds

\* ------------------------------------------------------ function return
\* A call of caller p returns r (or panics); t is the caller's unit of work with
\* the writes of the call, own the status of the unit of work the call opened.
\* The caller notes a failed call in its unit of work.
Return(p, r, t, own) ==
    /\ res' = [r EXCEPT !.p = p]
    /\ ctx' = [ctx EXCEPT ![p] = IF r.otx /\ r.out # "ok" THEN [t EXCEPT !.failed = TRUE] ELSE t]
    /\ itx' = [itx EXCEPT ![p] = DeferredRollback(own)]
    /\ UNCHANGED store

\* How the tail of ApplyEvent, New and AddNode ends once the last statement
\* succeeded: `if otx == nil { err = tx.Commit(); ... }; return id, nil`, tx being
\* handle h.  A commit through a nil *sql.Tx panics.
TailOut(useOtx, h) == IF CommitsOwn(useOtx) /\ h = "nil" THEN "panic" ELSE "ok"

CommitAndReturn(p, r, t, own, h) ==
    IF CommitsOwn(r.otx)
    THEN IF h = "nil"
         THEN Return(p, [r EXCEPT !.out = "panic", !.val = 0], t, own)
         ELSE /\ Durable(t)
              /\ res' = [r EXCEPT !.p = p]
              /\ ctx' = [ctx EXCEPT ![p] = [EmptyTx EXCEPT !.by = "engine"]]
              /\ itx' = [itx EXCEPT ![p] = DeferredRollback(own)]
    ELSE Return(p, r, t, own)

\* ------------------------------------------------------------ the callers
\* A caller may start a call when it has none in flight; it passes its unit of
\* work as otx only while that is open and no call made in it has failed.
MayCall(p, useOtx) ==
    /\ frame[p].pc = "idle"
    /\ useOtx => (ctx[p].st = "open" /\ ~ctx[p].failed)

\* A caller opens a unit of work of its own, to pass as otx.
CallerBegin(p) ==
    /\ frame[p].pc = "idle"
    /\ ctx[p].st # "open"
    /\ ctx' = [ctx EXCEPT ![p] = OpenTx]
    /\ UNCHANGED <<store, nextWid, nextNid, itx, evt, frame, succ, res>>

\* A caller commits its unit of work; it does so only when no call made in it failed.
CallerCommit(p) ==
    /\ frame[p].pc = "idle"
    /\ ctx[p].st = "open"
    /\ ~ctx[p].failed
    /\ Durable(ctx[p])
    /\ ctx' = [ctx EXCEPT ![p] = EmptyTx]
    /\ UNCHANGED <<nextWid, nextNid, itx, evt, frame, succ, res>>

\* A caller rolls its unit of work back: the write set is dropped.
CallerRollback(p) ==
    /\ frame[p].pc = "idle"
    /\ ctx[p].st = "open"
    /\ ctx' = [ctx EXCEPT ![p] = EmptyTx]
    /\ UNCHANGED <<store, nextWid, nextNid, itx, evt, frame, succ, res>>

\* ------------------------------------------------------------ _Workflows.New
NewRes(useOtx, nm, out, val, valid, sf) ==
    [NoRes EXCEPT !.op = "New", !.otx = useOtx, !.name = nm, !.out = out, !.val = val,
                  !.valid = valid, !.sf = sf]

\* the New call in flight of caller p returns (or panics) with outcome out
NewReturn(p, out, val, valid, sf, t) ==
    /\ Return(p, NewRes(frame[p].otx, frame[p].add.name, out, val, valid, sf), t,
              IF frame[p].otx THEN "none" ELSE "open")
    /\ frame' = [frame EXCEPT ![p] = Idle]

\* the New calls of the other callers in flight that may still insert a row
NewInFlight(p) == { q \in Procs \ {p} : frame[q].pc = "new" /\ frame[q].tx # "nil" }

\* New up to and including the opening of the unit of work (lines 141-156),
\* made while the ids of wf_workflows it and the calls in flight may hand out
\* are within maxId.  The INSERT and what follows it is a step of its own: a
\* unit of work the call opened is open while other callers run.
NewEnterUpTo(maxId, p, useOtx, name, dtype, state) ==
    /\ MayCall(p, useOtx)
    /\ UNCHANGED <<nextWid, nextNid, evt, succ>>
    /\ LET nm == TrimSpace(name)
           h == OuterTx(useOtx)
           dup == \E w \in SeenWfs(p) : w.name = nm
           fail(out, sf) == /\ Return(p, NewRes(useOtx, nm, out, 0, FALSE, sf), ctx[p], "none")
                            /\ UNCHANGED frame
       IN
       IF nm = <<>> THEN fail("InvalidArgument", "none")
       ELSE
       \* no call is made whose INSERT would need an id beyond maxId
       /\ (h # "nil" /\ ~dup) => nextWid + Cardinality(NewInFlight(p)) <= maxId
       /\ \E beginOk \in BOOLEAN :
            IF ~beginOk
            THEN ~useOtx /\ fail("StoreFailure", "begin")
            ELSE /\ frame' = [frame EXCEPT ![p] =
                        [Idle EXCEPT !.pc = "new", !.otx = useOtx, !.tx = h,
                            !.add = [NoAdd EXCEPT !.name = nm, !.dtype = dtype,
                                                  !.state = state]]]
                 /\ itx' = [itx EXCEPT ![p] = IF useOtx THEN "none" ELSE "open"]
                 /\ UNCHANGED <<store, ctx, res>>

NewEnter(p, useOtx, name, dtype, state) == NewEnterUpTo(MaxWfId, p, useOtx, name, dtype, state)

\* The INSERT of the workflow and the rest of New (lines 158-178) of the call in
\* flight of caller p, then the deferred rollback.  fp: the INSERT fails in the
\* store ("exec"), LastInsertId fails ("lastid"), neither does ("none").
NewInsert(p) ==
    /\ frame[p].pc = "new"
    /\ UNCHANGED <<nextNid, evt, succ>>
    /\ LET f == frame[p]
           a == f.add
           row == [id |-> nextWid, name |-> a.name, dtype |-> a.dtype, bstate |-> a.state]
           dup == \E w \in SeenWfs(p) : w.name = a.name
           locked == \E w \in OtherWfs(p) : w.name = a.name
       IN
       IF f.tx = "nil"            \* tx.Exec through a nil *sql.Tx
       THEN /\ NewReturn(p, "panic", 0, ~dup, "none", ctx[p])
            /\ UNCHANGED nextWid
       ELSE \E fp \in {"exec", "lastid", "none"} :
            CASE fp = "exec" ->
                   /\ NewReturn(p, "StoreFailure", 0, FALSE, "stmt", ctx[p])
                   /\ UNCHANGED nextWid
              [] fp # "exec" /\ dup ->
                   /\ fp = "none"
                   /\ NewReturn(p, "Duplicate", 0, FALSE, "none", ctx[p])
                   /\ UNCHANGED nextWid
              [] fp # "exec" /\ ~dup ->
                   /\ ~locked               \* the insert waits for a locked name
                   /\ nextWid' = nextWid + 1
                   /\ frame' = [frame EXCEPT ![p] = Idle]
                   /\ LET t == [ctx[p] EXCEPT !.wfs = @ \cup {row}]
                          own == IF f.otx THEN "none" ELSE "open"
                      IN
                      IF fp = "lastid"
                      THEN Return(p, NewRes(f.otx, a.name, "StoreFailure", 0, FALSE, "stmt"), t, own)
                      ELSE CommitAndReturn(p, NewRes(f.otx, a.name, "ok", row.id, TRUE, "none"),
                                           t, own, f.tx)

\* -------------------------------------------------------- _Workflows.AddNode
\* held: a Node of the call's (dtype, state), or a transition row under a key of
\* its map, was there for the call to see when it was made
AddNodeRes(useOtx, nm, n, held, out, val, valid, sf) ==
    [NoRes EXCEPT !.op = "AddNode", !.otx = useOtx, !.name = nm, !.n = n, !.node = held,
                  !.out = out, !.val = val, !.valid = valid, !.sf = sf]

\* the row the iteration for action da of `for da, ds := range hash` inserts
TransRow(dtype, state, hash, da) ==
    [dtype |-> dtype, from |-> state, action |-> da, to |-> hash[da]]

SameKey(r1, r2) == r1.dtype = r2.dtype /\ r1.from = r2.from /\ r1.action = r2.action

\* the outcome record of the AddNode call in flight of caller p
AddNodeEnded(p, out, val, valid, sf) ==
    LET a == frame[p].add
    IN AddNodeRes(frame[p].otx, a.name, Cardinality(DOMAIN a.hash), a.held, out, val, valid, sf)

\* the AddNode call in flight of caller p returns r (or panics)
AddNodeReturn(p, r, t) ==
    /\ Return(p, r, t, IF frame[p].otx THEN "none" ELSE "open")
    /\ frame' = [frame EXCEPT ![p] = Idle]

\* AddNode up to and including the opening of the unit of work (lines 250-268),
\* made while the ids of wf_workflow_nodes it may hand out are within maxId.
\* Every store call after it is a step of its own: the caller's unit of work
\* holds the rows inserted so far while other callers run.
AddNodeEnterUpTo(maxId, p, useOtx, dtype, state, wid, name, ntype, hash) ==
    /\ MayCall(p, useOtx)
    /\ UNCHANGED <<nextWid, nextNid, evt, succ>>
    /\ LET nm == TrimSpace(name)
           h == OuterTx(useOtx)
           n == Cardinality(DOMAIN hash)
           dupN == \E x \in SeenNodes(p) : x.dtype = dtype /\ x.state = state
           held == dupN \/ \E r \in SeenTrans(p), da \in DOMAIN hash :
                              r.dtype = dtype /\ r.from = state /\ r.action = da
           fail(out, sf) == /\ Return(p, AddNodeRes(useOtx, nm, n, held, out, 0, FALSE, sf),
                                      ctx[p], "none")
                            /\ UNCHANGED frame
       IN
       IF nm = <<>> \/ n = 0 THEN fail("InvalidArgument", "none")
       ELSE
       \* no call is made whose node INSERT would need an id beyond maxId
       /\ (h # "nil" /\ ~NodeInsertFailed(dupN)) => nextNid <= maxId
       /\ \E beginOk \in BOOLEAN :
            IF ~beginOk
            THEN ~useOtx /\ fail("StoreFailure", "begin")
            ELSE /\ frame' = [frame EXCEPT ![p] =
                        [Idle EXCEPT !.pc = "node", !.otx = useOtx, !.tx = h,
                            !.add = [dtype |-> dtype, state |-> state, wid |-> wid,
                                     name |-> nm, ntype |-> ntype, hash |-> hash,
                                     todo |-> DOMAIN hash, id |-> 0, held |-> held]]]
                 /\ itx' = [itx EXCEPT ![p] = IF useOtx THEN "none" ELSE "open"]
                 /\ UNCHANGED <<store, ctx, res>>

AddNodeEnter(p, useOtx, dtype, state, wid, name, ntype, hash) ==
    AddNodeEnterUpTo(MaxNodeId, p, useOtx, dtype, state, wid, name, ntype, hash)

\* The INSERT of the Node row and res.LastInsertId (lines 270-281) of the call
\* in flight of caller p.  fp: the INSERT fails in the store ("exec"),
\* LastInsertId fails ("lastid"), neither does ("none").
AddNodeInsertNode(p) ==
    /\ frame[p].pc = "node"
    /\ UNCHANGED <<nextWid, evt, succ>>
    /\ LET f == frame[p]
           a == f.add
           node == [id |-> nextNid, dtype |-> a.dtype, state |-> a.state, wid |-> a.wid,
                    name |-> a.name, ntype |-> a.ntype]
           dupN == \E x \in SeenNodes(p) : x.dtype = a.dtype /\ x.state = a.state
           lockedN == \E x \in OtherNodes(p) : x.dtype = a.dtype /\ x.state = a.state
       IN
       IF f.tx = "nil"            \* tx.Exec through a nil *sql.Tx
       THEN /\ AddNodeReturn(p, AddNodeEnded(p, "panic", 0, ~a.held, "none"), ctx[p])
            /\ UNCHANGED nextNid
       ELSE \E fp \in {"exec", "lastid", "none"} :
            CASE fp = "exec" ->
                   /\ AddNodeReturn(p, AddNodeEnded(p, "StoreFailure", 0, FALSE, "stmt"), ctx[p])
                   /\ UNCHANGED nextNid
              [] fp # "exec" /\ NodeInsertFailed(dupN) ->
                   /\ fp = "none"
                   /\ AddNodeReturn(p, AddNodeEnded(p, "Duplicate", 0, FALSE, "none"), ctx[p])
                   /\ UNCHANGED nextNid
              [] fp # "exec" /\ ~NodeInsertFailed(dupN) ->
                   /\ ~lockedN              \* the insert waits for a locked key
                   /\ nextNid' = nextNid + 1
                   /\ IF fp = "lastid"
                      THEN AddNodeReturn(p, AddNodeEnded(p, "StoreFailure", 0, FALSE, "stmt"),
                                         [ctx[p] EXCEPT !.nodes = @ \cup {node}])
                      ELSE /\ ctx' = [ctx EXCEPT ![p].nodes = @ \cup {node}]
                           /\ frame' = [frame EXCEPT ![p].pc = "trans", ![p].add.id = node.id]
                           /\ UNCHANGED <<store, itx, res>>

\* One iteration of the loop over the map (lines 283-292) of the call in flight
\* of caller p: the INSERT of the transition for an action not yet visited (the
\* order a map is ranged over is not fixed).  ok: the INSERT does not fail in
\* the store for a reason of its own.
AddNodeInsertTransition(p) ==
    /\ frame[p].pc = "trans"
    /\ frame[p].add.todo # {}
    /\ UNCHANGED <<nextWid, nextNid, evt, succ>>
    /\ \E da \in frame[p].add.todo, ok \in BOOLEAN :
       LET a == frame[p].add
           n == Cardinality(DOMAIN a.hash)
           row == TransRow(a.dtype, a.state, a.hash, da)
           dup == \E r \in SeenTrans(p) : SameKey(r, row)
           locked == \E r \in OtherTrans(p) : SameKey(r, row)
           i == n - Cardinality(a.todo) + 1
           k == IF ~ok \/ dup THEN i ELSE n + 1      \* this insert fails (n + 1: it does not)
       IN
       IF InsertFailed(k, n)
       THEN AddNodeReturn(p, AddNodeEnded(p, IF ok THEN "Duplicate" ELSE "StoreFailure", 0, FALSE,
                                          IF ok THEN "none" ELSE "stmt"), ctx[p])
       ELSE /\ ok => ~locked            \* the insert waits for a locked key
            /\ ctx' = [ctx EXCEPT ![p].trans = IF ok /\ ~dup THEN @ \cup {row} ELSE @]
            /\ frame' = [frame EXCEPT ![p].add.todo = @ \ {da}]
            /\ UNCHANGED <<store, itx, res>>

\* The rest of AddNode (lines 294-301) once the loop is through, then the
\* deferred rollback.
AddNodeFinish(p) ==
    /\ frame[p].pc = "trans"
    /\ frame[p].add.todo = {}
    /\ frame' = [frame EXCEPT ![p] = Idle]
    /\ UNCHANGED <<nextWid, nextNid, evt, succ>>
    /\ LET f == frame[p]
           a == f.add
       IN CommitAndReturn(p, AddNodeEnded(p, "ok", a.id, TRUE, "none"),
                          [ctx[p] EXCEPT !.adds = @ \cup {[id |-> a.id, hash |-> a.hash]}],
                          IF f.otx THEN "none" ELSE "open", f.tx)

\* ------------------------------------------------------- Workflow.ApplyEvent
\* the argument checks without `if event.status == EventStatusApplied`
Precheck_NoAppliedCheck(objs, wdtype, e, recips) ==
    IF e = NIL THEN "InvalidArgument"
    ELSE IF recips = {} THEN "InvalidArgument"
    ELSE IF wdtype # EvDtype(e) THEN "TypeMismatch"
    ELSE "ok"

\* the argument checks with the document type compared before the status
Precheck_TypeFirst(objs, wdtype, e, recips) ==
    IF e = NIL THEN "InvalidArgument"
    ELSE IF recips = {} THEN "InvalidArgument"
    ELSE IF wdtype # EvDtype(e) THEN "TypeMismatch"
    ELSE IF objs[e] = "Applied" THEN "AlreadyApplied"
    ELSE "ok"

\* the argument checks without `if len(recipients) == 0`
Precheck_NoRecipientsCheck(objs, wdtype, e, recips) ==
    IF e = NIL THEN "InvalidArgument"
    ELSE IF objs[e] = "Applied" THEN "AlreadyApplied"
    ELSE IF wdtype # EvDtype(e) THEN "TypeMismatch"
    ELSE "ok"

\* the argument checks without `if w.dtype != event.dtype`
Precheck_NoTypeCheck(objs, wdtype, e, recips) ==
    IF e = NIL THEN "InvalidArgument"
    ELSE IF recips = {} THEN "InvalidArgument"
    ELSE IF objs[e] = "Applied" THEN "AlreadyApplied"
    ELSE "ok"

\* lines 76-87: the argument checks, in the order of the code
Precheck(objs, wdtype, e, recips) ==
    IF e = NIL THEN "InvalidArgument"
    ELSE IF recips = {} THEN "InvalidArgument"
    ELSE IF objs[e] = "Applied" THEN "AlreadyApplied"
    ELSE IF wdtype # EvDtype(e) THEN "TypeMismatch"
    ELSE "ok"

\* _nodes.GetByState(dtype, state): the committed nodes governing (dtype, state)
GetByState(dtype, state) == { x \in nodes : x.dtype = dtype /\ x.state = state }

\* the node's transition table: the committed to-states of (dtype, state, action)
ToStates(dtype, state, action) ==
    { r.to : r \in { x \in trans : x.dtype = dtype /\ x.from = state /\ x.action = action } }
\* the registered to-state, 0 when there is none
ToState(dtype, state, action) ==
    IF ToStates(dtype, state, action) = {} THEN 0
    ELSE CHOOSE x \in ToStates(dtype, state, action) : TRUE

\* the inputs of an ApplyEvent call, as the outcome record keeps them
ApplyRes(p, useOtx, w, e, recips) ==
    [NoRes EXCEPT !.op = "ApplyEvent", !.otx = useOtx, !.ev = e, !.recips = recips,
       !.wdt = w,
       !.pre = IF e = NIL THEN "none" ELSE evt[p][e],
       !.node = IF e = NIL THEN FALSE ELSE GetByState(w, EvState(e)) # {},
       !.to = IF e = NIL THEN 0 ELSE ToState(w, EvState(e), EvAction(e))]

Ended(r, out, val, sf) ==
    [r EXCEPT !.out = out, !.val = val, !.sf = sf,
              !.valid = /\ r.ev # NIL /\ r.recips # {} /\ r.pre = "Created"
                        /\ r.wdt = EvDtype(r.ev) /\ r.node /\ r.to # 0 /\ sf = "none"]

\* ApplyEvent up to and including the lookup of the Node (lines 75-92); given a
\* unit of work the call takes it (lines 100-102) and goes on to n.applyEvent,
\* given none it has db.Begin to make next.
ApplyEventEnter(p, useOtx, w, e, recips) ==
    /\ MayCall(p, useOtx)
    /\ UNCHANGED <<nextWid, nextNid, evt, succ>>
    /\ LET pre == Precheck(evt[p], w.dtype, e, recips)
           r == ApplyRes(p, useOtx, w.dtype, e, recips)
           fail(out, sf) == /\ Return(p, Ended(r, out, 0, sf), ctx[p], "none")
                            /\ UNCHANGED frame
       IN
       IF pre # "ok" THEN fail(pre, "none")
       ELSE \E lookupOk \in BOOLEAN :
            \* `n, err := _nodes.GetByState(...); if err != nil { return 0, err }`:
            \* the lookup fails in the store, or finds no Node
            IF ~lookupOk THEN fail("StoreFailure", "query")
            ELSE IF GetByState(w.dtype, EvState(e)) = {} THEN fail("NodeNotFound", "none")
            ELSE /\ frame' = [frame EXCEPT ![p] =
                        [pc |-> IF useOtx THEN "apply" ELSE "begin", otx |-> useOtx,
                         tx |-> OuterTx(useOtx), ev |-> e, recips |-> recips,
                         wdt |-> w.dtype, add |-> NoAdd]]
                 /\ itx' = [itx EXCEPT ![p] = "none"]
                 /\ UNCHANGED <<store, ctx, res>>

\* `tx, err := db.Begin()` (lines 94-99) of the call in flight of caller p, made
\* without a unit of work
ApplyEventBegin(p) ==
    /\ frame[p].pc = "begin"
    /\ UNCHANGED <<nextWid, nextNid, evt, succ>>
    /\ \E beginOk \in BOOLEAN :
         IF ~beginOk
         THEN /\ Return(p, Ended(ApplyRes(p, frame[p].otx, frame[p].wdt, frame[p].ev,
                                          frame[p].recips), "StoreFailure", 0, "begin"),
                         ctx[p], "none")
              /\ frame' = [frame EXCEPT ![p] = Idle]
         ELSE /\ frame' = [frame EXCEPT ![p].pc = "apply"]
              /\ itx' = [itx EXCEPT ![p] = "open"]
              /\ UNCHANGED <<store, ctx, res>>

\* Node.applyEvent(tx, event, recipients) for the call in flight of caller p,
\* statement by statement: the outcome, the to-state, the caller's unit of work
\* after it and the status of the DocEvent object after it (Applied once every
\* statement went through).  st: the status update went through; done: the recipient groups
\* whose intent was recorded before a statement failed (all of them: none failed).
applyEvent(p, st, done) ==
    LET f == frame[p]
        to == ToState(f.wdt, EvState(f.ev), EvAction(f.ev))
        t == [ctx[p] EXCEPT !.evs = @ \cup {f.ev}, !.msgs = AddMsgs(@, f.ev, to, done)]
        was == evt[p][f.ev]
    IN
    IF to = 0 THEN [out |-> "IllegalAction", to |-> 0, tx |-> ctx[p], sf |-> "none", status |-> was]
    ELSE IF f.tx = "nil"
    THEN [out |-> "panic", to |-> 0, tx |-> ctx[p], sf |-> "none", status |-> was]
    ELSE IF ~st
    THEN [out |-> "StoreFailure", to |-> 0, tx |-> ctx[p], sf |-> "stmt", status |-> was]
    ELSE IF done # f.recips
    THEN [out |-> "StoreFailure", to |-> 0, tx |-> t, sf |-> "stmt", status |-> was]
    ELSE [out |-> "ok", to |-> to, sf |-> "none", status |-> "Applied",
          tx |-> [t EXCEPT !.apps = @ \cup {[p |-> p, ev |-> f.ev, to |-> to,
                                             recips |-> f.recips]}]]

\* n.applyEvent and the rest of ApplyEvent (lines 105-117), then the deferred rollback
ApplyEventFinish(p) ==
    /\ frame[p].pc = "apply"
    /\ frame' = [frame EXCEPT ![p] = Idle]
    /\ UNCHANGED <<nextWid, nextNid>>
    /\ \E st \in BOOLEAN, done \in SUBSET frame[p].recips :
       LET f == frame[p]
           a == applyEvent(p, st, done)
           r == ApplyRes(p, f.otx, f.wdt, f.ev, f.recips)
           wrote == a.tx.evs # ctx[p].evs \/ a.tx.msgs # ctx[p].msgs
       IN
       \* one choice of st and done for each outcome
       /\ a.out \in {"IllegalAction", "panic"} => (st /\ done = f.recips)
       /\ ~st => done = {}
       \* the event's row is locked while another unit of work holds its update
       /\ wrote => f.ev \notin OtherEvs(p)
       \* the DocEvent object is the caller's: n.applyEvent leaves its status in it
       /\ evt' = [evt EXCEPT ![p][f.ev] = a.status]
       /\ IF a.out = "panic"
          THEN /\ Return(p, Ended(r, "panic", 0, "none"), a.tx, itx[p])
               /\ UNCHANGED succ
          ELSE IF Failed(a.out)
          THEN /\ Return(p, Ended(r, a.out, 0, a.sf), a.tx, itx[p])
               /\ UNCHANGED succ
          ELSE /\ succ' = [succ EXCEPT ![p][f.ev] =
                             IF TailOut(f.otx, f.tx) = "ok" THEN @ + 1 ELSE @]
               /\ CommitAndReturn(p, Ended(r, "ok", a.to, a.sf), a.tx, itx[p], f.tx)

\* ------------------------------------------------------------ _Workflows.List
\* math.MaxInt64 is 2^63 - 1; the model keeps it at the largest integer the
\* model checker has, which is above every row count just the same.
MaxInt64 == 2147483647

\* the limit handed to the query as it was given
ListLimit_AsGiven(limit) == limit

\* `if limit == 0 { limit = math.MaxInt64 }`
ListLimit(limit) == IF limit = 0 THEN MaxInt64 ELSE limit

\* ORDER BY id: the rows of S in ascending order of id (the primary key)
RECURSIVE OrderById(_)
OrderById(S) ==
    IF S = {} THEN <<>>
    ELSE LET m == CHOOSE x \in S : \A y \in S : x.id <= y.id
         IN <<m>> \o OrderById(S \ {m})

\* the OFFSET not applied
SkipRows_None(s, k) == s

\* OFFSET k: the rows of s after the first k
SkipRows(s, k) == IF k >= Len(s) THEN <<>> ELSE SubSeq(s, k + 1, Len(s))
\* LIMIT l: the first l rows of s
TakeRows(s, l) == IF l >= Len(s) THEN s ELSE SubSeq(s, 1, l)

\* `SELECT id, name, doctype_id, docstate_id FROM wf_workflows ORDER BY id
\* LIMIT ? OFFSET ?` over the committed rows S
SelectWorkflows(S, limit, offset) == TakeRows(SkipRows(OrderById(S), offset), limit)

ListRes(offset, limit, out, rows, sf) ==
    [NoRes EXCEPT !.op = "List", !.off = offset, !.lim = limit, !.out = out, !.rows = rows,
                  !.sf = sf]

\* List runs its query on db, outside every unit of work: it reads committed rows.
List(p, offset, limit) ==
    /\ MayCall(p, FALSE)
    /\ itx' = [itx EXCEPT ![p] = "none"]       \* the call opens no unit of work
    /\ UNCHANGED <<store, nextWid, nextNid, ctx, evt, frame, succ>>
    /\ IF offset < 0 \/ limit < 0
       THEN res' = [ListRes(offset, limit, "InvalidArgument", <<>>, "none") EXCEPT !.p = p]
       ELSE \E queryOk \in BOOLEAN :      \* db.Query, rows.Scan or rows.Err fails
            res' = [(IF queryOk
                     THEN ListRes(offset, limit, "ok",
                                  SelectWorkflows(wfs, ListLimit(limit), offset), "none")
                     ELSE ListRes(offset, limit, "StoreFailure", <<>>, "query"))
                    EXCEPT !.p = p]

\* ------------------------------------------------------------- _Workflows.Get
\* the query without `elem.id = id`: the id field keeps its zero value
SelectWorkflow_NoId(S, id) ==
    { [id |-> 0, name |-> w.name, dtype |-> w.dtype, bstate |-> w.bstate] :
        w \in { x \in S : x.id = id } }

\* `SELECT name, doctype_id, docstate_id FROM wf_workflows WHERE id = ?`, then
\* `elem.id = id`: the committed rows with that id, as Workflow values
SelectWorkflow(S, id) ==
    { [id |-> id, name |-> w.name, dtype |-> w.dtype, bstate |-> w.bstate] :
        w \in { x \in S : x.id = id } }

GetRes(id, out, rows, sf) ==
    [NoRes EXCEPT !.op = "Get", !.val = id, !.out = out, !.rows = rows, !.sf = sf]

\* Get runs its query on db as well; row.Scan reports a missing row as an error.
Get(p, id) ==
    /\ MayCall(p, FALSE)
    /\ itx' = [itx EXCEPT ![p] = "none"]       \* the call opens no unit of work
    /\ UNCHANGED <<store, nextWid, nextNid, ctx, evt, frame, succ>>
    /\ \E queryOk \in BOOLEAN :
       res' = [(IF ~queryOk THEN GetRes(id, "StoreFailure", <<>>, "query")
                ELSE IF SelectWorkflow(wfs, id) = {} THEN GetRes(id, "NotFound", <<>>, "none")
                ELSE GetRes(id, "ok", OrderById(SelectWorkflow(wfs, id)), "none"))
               EXCEPT !.p = p]

\* ------------------------------------------------------- specifications
\* One caller, every operation; the registry holds the definitions for the
\* state the stored DocEvents are in (SpecNodes registers nodes for every state).
Next ==
    \/ \E p \in Admins : CallerBegin(p)
    \/ \E p \in Admins : CallerCommit(p)
    \/ \E p \in Admins : CallerRollback(p)
    \/ \E p \in Admins, useOtx \in BOOLEAN, name \in NameInputs, dtype \in DocTypes,
          state \in BeginStates : NewEnter(p, useOtx, name, dtype, state)
    \/ \E p \in Admins : NewInsert(p)
    \/ \E p \in Admins, useOtx \in BOOLEAN, dtype \in NodeDtypes, state \in BeginStates,
          wid \in WidInputs, name \in NodeNames, ntype \in NodeTypes, hash \in HashInputs :
          AddNodeEnter(p, useOtx, dtype, state, wid, name, ntype, hash)
    \/ \E p \in Admins : AddNodeInsertNode(p)
    \/ \E p \in Admins : AddNodeInsertTransition(p)
    \/ \E p \in Admins : AddNodeFinish(p)
    \/ \E p \in Admins, useOtx \in BOOLEAN, w \in wfs, e \in Events \cup {NIL},
          recips \in RecipientInputs : ApplyEventEnter(p, useOtx, w, e, recips)
    \/ \E p \in Admins : ApplyEventBegin(p)
    \/ \E p \in Admins : ApplyEventFinish(p)
    \/ \E p \in Admins, a \in ListArgs : List(p, a[1], a[2])
    \/ \E p \in Admins, id \in GetIds : Get(p, id)

Spec == Init /\ [][Next]_vars

\* Two callers racing to apply the stored DocEvents, each with its own DocEvent
\* objects; one of them registers the workflow and its node first.
RaceNames == { <<" ", "a", " ">> }
RaceHashes == { [a \in {1} |-> 20] }
RaceRecipients == { {7} }

NextRace ==
    \/ \E p \in Procs : CallerBegin(p)
    \/ \E p \in Procs : CallerCommit(p)
    \/ \E p \in Procs : CallerRollback(p)
    \/ \E p \in Admins, useOtx \in BOOLEAN, name \in RaceNames, dtype \in NodeDtypes,
          state \in BeginStates : NewEnter(p, useOtx, name, dtype, state)
    \/ \E p \in Admins : NewInsert(p)
    \/ \E p \in Admins, useOtx \in BOOLEAN, dtype \in NodeDtypes, state \in BeginStates,
          wid \in WidInputs, name \in NodeNames, ntype \in NodeTypes, hash \in RaceHashes :
          AddNodeEnter(p, useOtx, dtype, state, wid, name, ntype, hash)
    \/ \E p \in Admins : AddNodeInsertNode(p)
    \/ \E p \in Admins : AddNodeInsertTransition(p)
    \/ \E p \in Admins : AddNodeFinish(p)
    \/ \E p \in Procs, useOtx \in BOOLEAN, w \in wfs, e \in Events,
          recips \in RaceRecipients : ApplyEventEnter(p, useOtx, w, e, recips)
    \/ \E p \in Procs : ApplyEventBegin(p)
    \/ \E p \in Procs : ApplyEventFinish(p)

SpecRace == Init /\ [][NextRace]_vars

\* Two callers registering workflows under names that trim to the same or to
\* different strings, in units of work of their own or without one.
RegistryNames == { <<" ">>, <<"\t">>, <<" ", "a", " ">>, <<"\t", "a", "\n">>, <<"a">>, <<"b">> }

NextNames ==
    \/ \E p \in Procs : CallerBegin(p)
    \/ \E p \in Procs : CallerCommit(p)
    \/ \E p \in Procs : CallerRollback(p)
    \/ \E p \in Procs, useOtx \in BOOLEAN, name \in RegistryNames, dtype \in NodeDtypes,
          state \in BeginStates : NewEnterUpTo(MaxNameId, p, useOtx, name, dtype, state)
    \/ \E p \in Procs : NewInsert(p)

SpecNames == Init /\ [][NextNames]_vars

\* A caller registering the nodes of one document type, with every transition
\* map, in units of work of its own or without one.
NextNodes ==
    \/ \E p \in Admins : CallerBegin(p)
    \/ \E p \in Admins : CallerCommit(p)
    \/ \E p \in Admins : CallerRollback(p)
    \/ \E p \in Admins, useOtx \in BOOLEAN, dtype \in NodeDtypes, state \in DocStates,
          wid \in WidInputs, name \in NodeNames, ntype \in NodeTypes, hash \in HashInputs :
          AddNodeEnterUpTo(MaxRegNodeId, p, useOtx, dtype, state, wid, name, ntype, hash)
    \/ \E p \in Admins : AddNodeInsertNode(p)
    \/ \E p \in Admins : AddNodeInsertTransition(p)
    \/ \E p \in Admins : AddNodeFinish(p)

SpecNodes == Init /\ [][NextNodes]_vars

\* List and Get over the stores a history of New calls can leave behind: any
\* set of workflows with distinct ids (rolled-back inserts leave gaps in the
\* ids) and distinct names.
ListRow(i) == [id |-> i, name |-> [k \in 1..i |-> "a"], dtype |-> IF i % 2 = 1 THEN 1 ELSE 2,
               bstate |-> 10]
ListStores == { { ListRow(i) : i \in I } : I \in SUBSET (1..MaxListId) }
ListOffsets == -1..(MaxListId + 1)
ListLimits == -1..3

InitList ==
    /\ wfs \in ListStores /\ nodes = {} /\ trans = {}
    /\ evstatus = [e \in Events |-> "Created"]
    /\ msgs = NoMsgs /\ apps = {} /\ adds = {}
    /\ nextWid = MaxListId + 1 /\ nextNid = 1
    /\ ctx = [p \in Procs |-> EmptyTx]
    /\ itx = [p \in Procs |-> "none"]
    /\ evt = [p \in Procs |-> [e \in Events |-> "Created"]]
    /\ frame = [p \in Procs |-> Idle]
    /\ succ = [p \in Procs |-> [e \in Events |-> 0]]
    /\ res = NoRes

NextList ==
    \/ \E p \in Admins, offset \in ListOffsets, limit \in ListLimits : List(p, offset, limit)
    \/ \E p \in Admins, id \in 0..(MaxListId + 1) : Get(p, id)

SpecList == InitList /\ [][NextList]_vars

\* ApplyEvent over a registry left behind by New and AddNode calls: a workflow
\* for each document type and, for the state the stored DocEvents are in, no
\* Node or a Node with one of the transition maps.
OrderWfs == { [id |-> 1, name |-> <<"a">>, dtype |-> 1, bstate |-> 10],
              [id |-> 2, name |-> <<"b">>, dtype |-> 2, bstate |-> 10] }
OrderNode == [id |-> 1, dtype |-> 1, state |-> 10, wid |-> 1, name |-> <<"n">>,
              ntype |-> "begin"]
OrderHashes == { h \in HashInputs : DOMAIN h # {} }

InitOrder ==
    /\ wfs = OrderWfs
    /\ \/ nodes = {} /\ trans = {} /\ adds = {} /\ nextNid = 1
       \/ \E h \in OrderHashes :
            /\ nodes = {OrderNode}
            /\ trans = { [dtype |-> 1, from |-> 10, action |-> da, to |-> h[da]] :
                           da \in DOMAIN h }
            /\ adds = {[id |-> 1, hash |-> h]}
            /\ nextNid = 2
    /\ evstatus = [e \in Events |-> "Created"]
    /\ msgs = NoMsgs /\ apps = {}
    /\ nextWid = 3
    /\ ctx = [p \in Procs |-> EmptyTx]
    /\ itx = [p \in Procs |-> "none"]
    /\ evt = [p \in Procs |-> [e \in Events |-> "Created"]]
    /\ frame = [p \in Procs |-> Idle]
    /\ succ = [p \in Procs |-> [e \in Events |-> 0]]
    /\ res = NoRes

NextOrder ==
    \/ \E p \in Admins : CallerBegin(p)
    \/ \E p \in Admins : CallerCommit(p)
    \/ \E p \in Admins : CallerRollback(p)
    \/ \E p \in Admins, useOtx \in BOOLEAN, w \in wfs, e \in Events \cup {NIL},
          recips \in RecipientInputs : ApplyEventEnter(p, useOtx, w, e, recips)
    \/ \E p \in Admins : ApplyEventBegin(p)
    \/ \E p \in Admins : ApplyEventFinish(p)

SpecOrder == InitOrder /\ [][NextOrder]_vars

\* ------------------------------------------------------------------ claims
\* This step is the return (or panic) of a call of caller p: p has no call in
\* flight after it, its unit of work was not begun or ended by p itself, and
\* no other caller moved.
CallDone(p) ==
    /\ p \in Procs
    /\ res'.p = p
    /\ frame'[p].pc = "idle"
    /\ ctx'[p].st = ctx[p].st \/ ctx'[p].by = "engine"
    /\ \A q \in Procs \ {p} : ctx'[q] = ctx[q] /\ frame'[q] = frame[q] /\ itx'[q] = itx[q]

\* C1 as stated: at-most-once application, sequentially.  Of the ApplyEvent
\* calls a caller makes on one DocEvent object at most one succeeds; every call
\* made after the successful one returns AlreadyApplied and leaves the store,
\* the caller's unit of work and the event's status as they were.  The status
\* of the object and of the stored row only moves Created -> Applied.
C1_AtMostOnceAsStated ==
    [][\A p \in Procs, e \in Events :
         /\ evt[p][e] = "Applied" => evt'[p][e] = "Applied"
         /\ evstatus[e] = "Applied" => evstatus'[e] = "Applied"
         /\ succ'[p][e] <= 1
         /\ (succ[p][e] = 1 /\ CallDone(p) /\ res'.op = "ApplyEvent" /\ res'.ev = e)
              => /\ res'.out = "AlreadyApplied"
                 /\ UNCHANGED <<store, evt, succ>>
                 /\ WriteSet(ctx'[p]) = WriteSet(ctx[p])]_vars

\* C1: at-most-once application, sequentially.  Of the ApplyEvent calls a caller
\* makes on one DocEvent object at most one succeeds; a call made after the
\* successful one returns AlreadyApplied when it names recipients and
\* InvalidArgument when it names none, and leaves the store, the caller's unit
\* of work and the event's status as they were.  The status of the object and
\* of the stored row only moves Created -> Applied.
C1_AtMostOnceSequential ==
    [][\A p \in Procs, e \in Events :
         /\ evt[p][e] = "Applied" => evt'[p][e] = "Applied"
         /\ evstatus[e] = "Applied" => evstatus'[e] = "Applied"
         /\ succ'[p][e] <= 1
         /\ (succ[p][e] = 1 /\ CallDone(p) /\ res'.op = "ApplyEvent" /\ res'.ev = e)
              => /\ res'.out = IF res'.recips = {} THEN "InvalidArgument" ELSE "AlreadyApplied"
                 /\ UNCHANGED <<store, evt, succ>>
                 /\ WriteSet(ctx'[p]) = WriteSet(ctx[p])]_vars

\* a second call on an applied DocEvent object came back AlreadyApplied
C1_Witness ==
    /\ res.op = "ApplyEvent" /\ res.out = "AlreadyApplied" /\ res.ev = 1
    /\ succ[1][1] = 1 /\ evt[1][1] = "Applied"

\* C2: at-most-once application, concurrently.  When two callers race to apply
\* the same stored DocEvent, no state has two successful applications of it:
\* not two successful returns, nor two intents for one recipient group.
C2_AtMostOnceConcurrent ==
    \A e \in Events :
      /\ succ[1][e] + succ[2][e] <= 1
      /\ \A k \in IntentKeys : k[1] = e => msgs[k] <= 1

\* C3: atomicity of a transition.  In every committed store state an event has
\* either all the effects of an application (status Applied and an intent for
\* every recipient group of that application) or none (status Created, no intent).
C3_AtomicTransition ==
    \A e \in Events :
      /\ evstatus[e] = "Applied" <=> (\E k \in IntentKeys : k[1] = e /\ msgs[k] > 0)
      /\ evstatus[e] = "Applied" =>
           \E a \in apps : a.ev = e /\ \A g \in a.recips : msgs[<<e, a.to, g>>] >= 1

\* a committed application with both recipient groups served
C3_Witness ==
    /\ evstatus[1] = "Applied"
    /\ msgs[<<1, 20, 7>>] = 1 /\ msgs[<<1, 20, 8>>] = 1

\* C4: self-managed unit of work, success path.  A call of ApplyEvent, New or
\* AddNode without a caller-supplied unit of work, whose inputs meet every
\* precondition and in which no statement fails, returns success (having
\* committed its own unit of work).
C4_SelfManagedCommit ==
    (res.op \in {"ApplyEvent", "New", "AddNode"} /\ ~res.otx /\ res.valid) => res.out = "ok"

\* C5: self-managed unit of work, failure path.  No call returns with the unit
\* of work it opened itself still open; a call without a caller-supplied unit of
\* work that fails leaves the durable store as it was, and when it failed after
\* opening its unit of work, that unit of work has been rolled back.
C5_InternalRollback ==
    /\ [](\A p \in Procs : frame[p].pc = "idle" => itx[p] # "open")
    /\ [][(CallDone(res'.p) /\ ~res'.otx /\ res'.out # "ok")
            => /\ UNCHANGED store
               /\ (res'.out \in {"panic", "IllegalAction"} \/ res'.sf = "stmt")
                    => itx'[res'.p] = "rolledback"]_vars

\* an ApplyEvent without a caller-supplied unit of work failed after db.Begin
C5_Witness ==
    /\ res.op = "ApplyEvent" /\ ~res.otx /\ res.out = "IllegalAction"
    /\ itx[1] = "rolledback"

\* C6: a caller-supplied unit of work is never finished by the engine.  A call
\* of ApplyEvent, New or AddNode given a unit of work returns, on success and on
\* failure, with that unit of work open and the durable store as it was.
C6_CallerTxUntouched ==
    /\ [](\A p \in Procs : ctx[p].by # "engine")
    /\ [][(CallDone(res'.p) /\ res'.otx)
            => /\ ctx[res'.p].st = "open" /\ ctx'[res'.p].st = "open"
               /\ UNCHANGED store]_vars

\* a successful ApplyEvent in the caller's unit of work: the writes are in it, and it is open
C6_Witness ==
    /\ res.op = "ApplyEvent" /\ res.otx /\ res.out = "ok"
    /\ ctx[1].st = "open" /\ 1 \in ctx[1].evs

\* C7: AddNode atomicity.  No insert of an AddNode call in flight reaches the
\* durable store; a failed AddNode call leaves the durable store as it
\* was; a successful one has written the Node row and every transition row of
\* its map through its unit of work; and the durable store never holds part of
\* an AddNode: every Node row is there with every transition row of its call's
\* map, and every transition row with its Node row.
C7_AddNodeAtomic ==
    /\ [](/\ \A x \in nodes : \E a \in adds :
               /\ a.id = x.id
               /\ \A da \in DOMAIN a.hash :
                    [dtype |-> x.dtype, from |-> x.state, action |-> da, to |-> a.hash[da]] \in trans
          /\ \A r \in trans : \E x \in nodes : x.dtype = r.dtype /\ x.state = r.from)
    /\ [][\A p \in Admins :
            (frame[p].pc \in {"node", "trans"} /\ frame'[p].pc \in {"node", "trans"})
               => UNCHANGED store]_vars
    /\ [][(CallDone(res'.p) /\ res'.op = "AddNode")
            => /\ res'.out # "ok" => UNCHANGED store
               /\ res'.out = "ok" =>
                    LET t == ctx'[res'.p] IN
                    \E a \in adds' \cup t.adds, x \in nodes' \cup t.nodes :
                       /\ a.id = res'.val /\ x.id = res'.val
                       /\ \A da \in DOMAIN a.hash :
                            [dtype |-> x.dtype, from |-> x.state, action |-> da,
                             to |-> a.hash[da]] \in trans' \cup t.trans]_vars

\* an AddNode call failed at a transition insert after the Node row and another
\* transition row went in: none of them is in the durable store
C7_Witness ==
    /\ res.op = "AddNode" /\ res.out = "StoreFailure"
    /\ ctx[1].nodes # {} /\ ctx[1].trans # {}
    /\ nodes = {} /\ trans = {}

\* C8: successful transition result.  An ApplyEvent call on a Created event of
\* the workflow's document type, with recipients, a registered Node and a
\* registered transition for its action, returns the registered to-state, and
\* the event is Applied afterwards.
C8_SuccessfulTransition ==
    (res.op = "ApplyEvent" /\ res.valid)
       => (res.out = "ok" /\ res.val = res.to /\ evt[res.p][res.ev] = "Applied")

\* C9: notification intents follow the unit of work.  The committed intents are
\* exactly one per recipient group of every committed successful application,
\* each for the event and its new state, and a committed intent is never lost.
C9_IntentsFollowTx ==
    /\ [](\A k \in IntentKeys :
            msgs[k] = Cardinality({ a \in apps : a.ev = k[1] /\ a.to = k[2] /\ k[3] \in a.recips }))
    /\ [][\A k \in IntentKeys : msgs'[k] >= msgs[k]]_vars

\* a committed application for group 7 alone: one intent for 7, none for 8
C9_Witness ==
    /\ \E a \in apps : a.ev = 1 /\ a.recips = {7}
    /\ msgs[<<1, 20, 7>>] = 1 /\ msgs[<<1, 20, 8>>] = 0

\* an ApplyEvent call on a Created event of the workflow's document type, with
\* recipients, for whose action no transition is registered, no statement failing
NoTransitionCall(r) ==
    /\ r.op = "ApplyEvent" /\ r.ev # NIL /\ r.recips # {} /\ r.pre = "Created"
    /\ r.wdt = EvDtype(r.ev) /\ r.to = 0 /\ r.sf = "none"

\* C10 as stated: with no transition registered for the event's action,
\* ApplyEvent returns IllegalAction.
C10_IllegalActionAsStated ==
    NoTransitionCall(res) => res.out = "IllegalAction"

\* C10, amended: with no transition registered for the event's action,
\* ApplyEvent returns IllegalAction when a Node is registered for the event's
\* state and NodeNotFound when none is; either way the store, the caller's unit
\* of work and the event's status are left as they were.
C10_IllegalActionUnchanged ==
    /\ [](NoTransitionCall(res) =>
            res.out = IF res.node THEN "IllegalAction" ELSE "NodeNotFound")
    /\ [][(CallDone(res'.p) /\ NoTransitionCall(res'))
            => /\ UNCHANGED <<store, evt, succ>>
               /\ WriteSet(ctx'[res'.p]) = WriteSet(ctx[res'.p])
               /\ evt'[res'.p][res'.ev] = "Created"]_vars

\* IllegalAction came back for a Created event whose state has a Node
C10_Witness ==
    /\ res.op = "ApplyEvent" /\ res.out = "IllegalAction" /\ res.node /\ res.to = 0
    /\ evstatus[1] = "Created" /\ evt[1][1] = "Created" /\ msgs = NoMsgs

\* an ApplyEvent call with an event that is not Applied, with recipients, on a
\* workflow of another document type than the event's
MismatchCall(r) ==
    /\ r.op = "ApplyEvent" /\ r.ev # NIL /\ r.recips # {} /\ r.pre # "Applied"
    /\ r.wdt # EvDtype(r.ev)

\* C11: TypeMismatch mutates nothing.  An ApplyEvent call with an event (not
\* nil, not Applied, with recipients) whose document type differs from the
\* workflow's returns TypeMismatch; the store, the event's status, the intents
\* and the caller's unit of work are as they were, and the call opened no unit
\* of work of its own.
C11_TypeMismatchUnchanged ==
    /\ [](MismatchCall(res) => res.out = "TypeMismatch")
    /\ [][(CallDone(res'.p) /\ MismatchCall(res'))
            => /\ UNCHANGED <<store, evt, succ>>
               /\ ctx'[res'.p] = [ctx[res'.p] EXCEPT !.failed = @ \/ res'.otx]
               /\ itx'[res'.p] = "none"
               /\ res'.sf = "none"]_vars

\* TypeMismatch came back for a Created event of type 1 on a workflow of type 2
C11_Witness ==
    /\ res.op = "ApplyEvent" /\ res.out = "TypeMismatch" /\ res.wdt = 2 /\ res.recips # {}
    /\ \E w \in wfs : w.dtype = 2
    /\ evstatus[1] = "Created" /\ evt[1][1] = "Created" /\ msgs = NoMsgs

\* the workflows a List call would return were its offset the smallest id to
\* include: the first limit rows, in id order, of those with id >= offset
\* C12: the offset of List is an id lower bound.  A successful List(offset,
\* limit) with offset >= 0 and limit > 0 returns at most limit workflows, each
\* of them stored and with id >= offset, whatever the stored ids are.
C12_ListOffsetIsIdBound ==
    (res.op = "List" /\ res.out = "ok" /\ res.off >= 0 /\ res.lim > 0)
       => /\ Len(res.rows) <= res.lim
          /\ \A i \in 1..Len(res.rows) : res.rows[i] \in wfs /\ res.rows[i].id >= res.off

\* List(2, 2) over the workflows 1, 3, 4, 5 (no workflow 2) returned two
\* workflows
C12_Witness ==
    /\ res.op = "List" /\ res.out = "ok" /\ res.off = 2 /\ res.lim = 2
    /\ { w.id : w \in wfs } = {1, 3, 4, 5}
    /\ Len(res.rows) = 2

\* C13: List(0, 0) is the full ordered listing.  A List call with offset 0 and
\* limit 0 whose query does not fail returns every committed workflow exactly
\* once, in strictly ascending order of id; a List call with a negative offset
\* or a negative limit returns InvalidArgument and no result.
C13_FullListing ==
    [][(CallDone(res'.p) /\ res'.op = "List")
         => /\ (res'.off < 0 \/ res'.lim < 0)
                 => (res'.out = "InvalidArgument" /\ res'.rows = <<>>)
            /\ (res'.off = 0 /\ res'.lim = 0 /\ res'.out # "StoreFailure")
                 => /\ res'.out = "ok"
                    /\ { res'.rows[i] : i \in 1..Len(res'.rows) } = wfs
                    /\ Len(res'.rows) = Cardinality(wfs)
                    /\ \A i, j \in 1..Len(res'.rows) :
                          i < j => res'.rows[i].id < res'.rows[j].id]_vars

\* List(0, 0) returned the three workflows of a store with gaps in the ids
C13_Witness ==
    /\ res.op = "List" /\ res.off = 0 /\ res.lim = 0 /\ res.out = "ok"
    /\ { w.id : w \in wfs } = {1, 3, 5}
    /\ Len(res.rows) = 3 /\ res.rows[1].id = 1 /\ res.rows[2].id = 3 /\ res.rows[3].id = 5

\* no two committed workflows share a name, and every stored name is trimmed
NamesUnique ==
    /\ \A w1, w2 \in wfs : w1.name = w2.name => w1 = w2
    /\ \A w \in wfs : w.name = TrimSpace(w.name) /\ w.name # <<>>

\* this step is the return of a New call of caller p whose trimmed name is that
\* of a workflow the call could see (a committed one, or one written earlier in
\* the unit of work it was given), no statement failing in the store
DuplicateNew(p) ==
    /\ CallDone(p) /\ res'.op = "New" /\ res'.sf = "none" /\ res'.name # <<>>
    /\ \E w \in wfs \cup (IF res'.otx THEN ctx[p].wfs ELSE {}) : w.name = res'.name

\* C14: workflow names stay unique.  After any sequence of New calls, with or
\* without a caller-supplied unit of work, committed or rolled back, no two
\* stored workflows have the same trimmed name; a New call whose trimmed name
\* is that of an existing workflow fails with Duplicate and adds no workflow.
C14_NamesUnique ==
    /\ []NamesUnique
    /\ [][DuplicateNew(res'.p)
            => /\ res'.out = "Duplicate"
               /\ wfs' = wfs /\ ctx'[res'.p].wfs = ctx[res'.p].wfs]_vars

\* in the rows N and T no two nodes govern one (document type, state) and no
\* two transition rows share a (document type, from-state, action) key
Functional(N, T) ==
    /\ \A x1, x2 \in N : (x1.dtype = x2.dtype /\ x1.state = x2.state) => x1 = x2
    /\ \A r1, r2 \in T : SameKey(r1, r2) => r1 = r2

\* C15: the transition table stays a partial function.  After any sequence of
\* AddNode calls the stored rows, and the rows any unit of work sees, hold at
\* most one to-state per (document type, from-state, action) and at most one
\* Node per (document type, state); an AddNode call for a (document type, state)
\* that has a Node, or with an action whose key has a row, does not succeed and
\* adds no row, and it returns Duplicate when it was given a unit of work and
\* no statement failed in the store.
C15_TransitionsFunctional ==
    /\ [](/\ Functional(nodes, trans)
          /\ \A p \in Procs : Functional(SeenNodes(p), SeenTrans(p)))
    /\ [][(CallDone(res'.p) /\ res'.op = "AddNode" /\ res'.node
            /\ res'.out # "InvalidArgument")
            => /\ res'.out # "ok"
               /\ (res'.otx /\ res'.sf = "none") => res'.out = "Duplicate"
               /\ nodes' = nodes /\ trans' = trans
               /\ ctx'[res'.p].nodes = ctx[res'.p].nodes
               /\ ctx'[res'.p].trans = ctx[res'.p].trans]_vars

\* a second AddNode for a registered (document type, state) came back Duplicate,
\* with two nodes and their transitions committed
C15_Witness ==
    /\ res.op = "AddNode" /\ res.node /\ res.out = "Duplicate"
    /\ Cardinality(nodes) = 2 /\ Cardinality(trans) >= 3

\* C16: multi-call composition.  The Node and Transition rows of the calls a
\* caller makes inside one unit of work of its own reach the durable store all
\* together or not at all: they change the durable store only when the caller
\* ends that unit of work, a commit persists every row written in it, and a
\* rollback (the caller's answer to a failed call) persists none.
C16_ComposedAllOrNothing ==
    [][/\ \A p \in Procs :
            (ctx[p].st = "open" /\ ctx'[p].st # "open")
               => \/ nodes' = nodes /\ trans' = trans /\ adds' = adds
                  \/ /\ ~ctx[p].failed
                     /\ nodes' = nodes \cup ctx[p].nodes
                     /\ trans' = trans \cup ctx[p].trans
                     /\ adds' = adds \cup ctx[p].adds
       /\ \A p \in Procs : (ctx[p].st = "open" /\ ctx[p].failed) => UNCHANGED store
       /\ (nodes' # nodes \/ trans' # trans)
            => \E p \in Procs : ctx[p].st = "open" /\ ctx'[p] = EmptyTx]_vars

\* one unit of work holds the rows of a successful AddNode and of a failed one
\* (two nodes, one completed call); none of them is in the durable store
C16_Witness ==
    /\ ctx[1].st = "open" /\ ctx[1].failed
    /\ Cardinality(ctx[1].nodes) = 2 /\ Cardinality(ctx[1].adds) = 1 /\ ctx[1].trans # {}
    /\ nodes = {} /\ trans = {}

\* a call with an argument the operation refuses: ApplyEvent with a nil event
\* or no recipients, New or AddNode with a name that trims to nothing, AddNode
\* with an empty map, List with a negative offset or limit
InvalidCall(r) ==
    \/ r.op = "ApplyEvent" /\ (r.ev = NIL \/ r.recips = {})
    \/ r.op = "New" /\ r.name = <<>>
    \/ r.op = "AddNode" /\ (r.name = <<>> \/ r.n = 0)
    \/ r.op = "List" /\ (r.off < 0 \/ r.lim < 0)

\* the name has a character that is not white space
NotBlank(name) == \E i \in 1..Len(name) : name[i] \notin WhiteSpace

\* C17: InvalidArgument comes before any storage access.  A call with a refused
\* argument returns InvalidArgument whatever the store holds and whether or not
\* its statements would fail; it opens no unit of work, hands out no id and
\* leaves the durable store, the caller's unit of work and the event's status
\* as they were.  No row with a blank name is ever written.
C17_InvalidArgumentFirst ==
    /\ [](/\ InvalidCall(res) => (res.out = "InvalidArgument" /\ res.sf = "none")
          /\ \A p \in Procs :
               /\ \A w \in SeenWfs(p) : NotBlank(w.name)
               /\ \A x \in SeenNodes(p) : NotBlank(x.name))
    /\ [][(CallDone(res'.p) /\ InvalidCall(res'))
            => /\ UNCHANGED <<store, evt, succ, nextWid, nextNid>>
               /\ WriteSet(ctx'[res'.p]) = WriteSet(ctx[res'.p])
               /\ itx'[res'.p] = "none"
               /\ res'.rows = <<>>]_vars

\* an ApplyEvent call without recipients came back InvalidArgument although the
\* event was Created and its Node and transition were registered
C17_Witness ==
    /\ res.op = "ApplyEvent" /\ res.recips = {} /\ res.ev = 1 /\ res.out = "InvalidArgument"
    /\ res.pre = "Created" /\ res.wdt = 1 /\ res.node /\ res.to = 20

\* the first precondition of ApplyEvent a call violates, in the order nil event,
\* no recipients, event already Applied, document type mismatch, no Node for
\* the event's state, no transition for its action ("none": it violates none)
FirstViolation(r) ==
    IF r.ev = NIL THEN "InvalidArgument"
    ELSE IF r.recips = {} THEN "InvalidArgument"
    ELSE IF r.pre = "Applied" THEN "AlreadyApplied"
    ELSE IF r.wdt # EvDtype(r.ev) THEN "TypeMismatch"
    ELSE IF ~r.node THEN "NodeNotFound"
    ELSE IF r.to = 0 THEN "IllegalAction"
    ELSE "none"

\* C18: fixed precedence of the precondition failures of ApplyEvent.  A call
\* that violates one or more preconditions reports the first violated in the
\* order nil event, empty recipients, AlreadyApplied, TypeMismatch, NodeNotFound,
\* IllegalAction, unless a store call made before that precondition is looked
\* at fails: the lookup of the Node comes before NodeNotFound and IllegalAction,
\* db.Begin before IllegalAction, and no store call before the other four.
\* Every failure up to NodeNotFound is returned with no unit of work opened and
\* nothing changed.
C18_FailurePrecedence ==
    /\ []((res.op = "ApplyEvent" /\ FirstViolation(res) # "none" /\ res.sf = "none")
            => res.out = FirstViolation(res))
    /\ []((res.op = "ApplyEvent" /\ res.sf # "none")
            => /\ res.out = "StoreFailure"
               /\ res.sf = "query" => FirstViolation(res) \in {"NodeNotFound", "IllegalAction", "none"}
               /\ res.sf = "begin" => FirstViolation(res) \in {"IllegalAction", "none"}
               /\ res.sf = "stmt" => FirstViolation(res) = "none")
    /\ [][(CallDone(res'.p) /\ res'.op = "ApplyEvent"
            /\ FirstViolation(res') \notin {"IllegalAction", "none"})
            => /\ UNCHANGED <<store, evt, succ>>
               /\ WriteSet(ctx'[res'.p]) = WriteSet(ctx[res'.p])
               /\ itx'[res'.p] = "none"]_vars

\* an Applied event handed to the workflow of the other document type, for
\* which no Node is registered, came back AlreadyApplied
C18_Witness ==
    /\ res.op = "ApplyEvent" /\ res.out = "AlreadyApplied"
    /\ res.pre = "Applied" /\ res.wdt = 2 /\ ~res.node /\ res.to = 0 /\ res.recips # {}

\* the definition rows: committed, and written in the unit of work of caller p
Definitions == <<wfs, nodes, trans>>
Written(p) == <<ctx[p].wfs, ctx[p].nodes, ctx[p].trans>>

\* C19: definitions are immutable and ApplyEvent does not touch them.  No step
\* of New, AddNode, ApplyEvent, List or Get changes or removes a committed
\* Workflow, Node or Transition row or removes a DocEvent, and an id is never
\* given to a second row; no step of an ApplyEvent call, successful or failed,
\* changes the workflows, nodes or transitions, committed or in the caller's
\* unit of work; a successful Get(id) returns the committed workflow of that
\* id, which is the same row after every later step.
C19_DefinitionsImmutable ==
    [][/\ wfs \subseteq wfs' /\ nodes \subseteq nodes' /\ trans \subseteq trans'
       /\ DOMAIN evstatus' = DOMAIN evstatus
       /\ \A w \in wfs, v \in wfs' : v.id = w.id => v = w
       /\ \A x \in nodes, y \in nodes' : y.id = x.id => y = x
       /\ \A p \in Procs :
            (frame[p].pc \in {"begin", "apply"} \/ frame'[p].pc \in {"begin", "apply"}
               \/ (CallDone(p) /\ res'.op \in {"ApplyEvent", "List", "Get"}))
              => (Definitions' = Definitions /\ Written(p)' = Written(p))
       /\ \A id \in GetIds :
            SelectWorkflow(wfs, id) # {} => SelectWorkflow(wfs', id) = SelectWorkflow(wfs, id)
       /\ (CallDone(res'.p) /\ res'.op = "Get" /\ res'.out = "ok")
            => /\ Len(res'.rows) = 1 /\ res'.rows[1] \in wfs
               /\ res'.rows[1].id = res'.val]_vars

\* Get returned workflow 1 as New stored it, after a Node was registered and an
\* event applied
C19_Witness ==
    /\ res.op = "Get" /\ res.out = "ok" /\ res.val = 1
    /\ res.rows = <<[id |-> 1, name |-> <<"a">>, dtype |-> 1, bstate |-> 10]>>
    /\ nodes # {} /\ evstatus[1] = "Applied"

====
